---- MODULE Spec2Model ----
(***************************************************************************)
(* Model of the multi-provider generation gateway of Ex3-NovelWriter:      *)
(* backend/models/base.py (contract and merge rule), the six provider      *)
(* adapters, backend/models/model_manager.py (registry and health          *)
(* aggregation), the generate route of backend/api_routes.py and the       *)
(* project store of backend/app.py.                                        *)
(*                                                                         *)
(* The server runs on one asyncio event loop: a synchronous method         *)
(* (add_model, remove_model, get_model) is one atomic step, a coroutine    *)
(* (health_check_all) is split at the points where it awaits the network.  *)
(* generate and health_check read the registry once, before their await,   *)
(* and touch nothing shared after it, so each is taken as one step; CallSpec *)
(* splits them at the await.                                               *)
(* Floats are modelled in hundredths (0.9 is 90), so 0.0 is 0 and is as    *)
(* falsy as Python's 0.0.                                                  *)
(***************************************************************************)
EXTENDS Integers, Sequences, FiniteSets, TLC

VARIABLES
    providers,   \* ModelManager.providers: the dict, as its entry array
    ret,         \* what the method that finished in the last step returned or
                 \* raised, with its arguments
    hca,         \* the health_check_all coroutine: where it is suspended, its
                 \* iterator and results, and the history of the call
    config,      \* merge rule: the adapter's ModelConfig
    request,     \* merge rule: the GenerationRequest
    params,      \* merge rule: the dict returned by merge_config
    call,        \* a generate or health_check coroutine suspended on its
                 \* backend: its model_name and its local variable provider
    projects_db  \* app.py's in-memory project store: project id -> project

vars == <<providers, ret, hca, config, request, params, call, projects_db>>

\* Python's None, where a string or an object is expected
None == "None"
\* Python's None, where a number is expected
NoNumber == -1
\* Python's None, where an adapter is expected
NoProvider == [class |-> "NoneType"]
\* Python's None, where a list is expected
NoList == <<None>>

\* ret before any method has finished
NoRet == [op |-> "none"]

\* hca while no health_check_all call is in progress
IdleHca == [pc |-> "idle"]

\* call while no generate or health_check call is suspended
NoCall == [pc |-> "idle"]

\* projects_db: Dict[str, Dict[str, Any]] = {}
NoProjects == <<>>

\* The outcome of a health_check: whether an exception leaves the method, and
\* the bool returned otherwise.
Returns(v) == [raised |-> FALSE, value |-> v]

Raises == [raised |-> TRUE, value |-> FALSE]

\* ------------------------------------------------------------------ bounds
\* Length of the dict's entry array before an insertion compacts it.
DictUsable == 2
\* Request and custom_params values range over 0..MaxVal.
MaxVal == 1

\* --------------------------------------------------------- ModelConfig
DefaultMaxTokens == 4096
DefaultTemperature == 90
DefaultTopP == 90
DefaultTopK == 40

NoCustomParams == [k \in {} |-> 0]

ModelConfig(name, provider, model_id, api_key, base_url) ==
    [name |-> name, provider |-> provider, model_id |-> model_id,
     api_key |-> api_key, base_url |-> base_url,
     max_tokens |-> DefaultMaxTokens, temperature |-> DefaultTemperature,
     top_p |-> DefaultTopP, top_k |-> DefaultTopK,
     custom_params |-> NoCustomParams]

MergeKeys == {"max_tokens", "temperature", "top_p", "top_k"}

\* Python truthiness of an Optional number: None, 0 and 0.0 are falsy.
Truthy(x) == x # NoNumber /\ x # 0

\* Python's "a or b".
Or(a, b) == IF Truthy(a) THEN a ELSE b

\* Python truthiness of an Optional str: None and "" are falsy.
TruthyStr(s) == s # None /\ s # ""

\* Python truthiness of an Optional list: None and [] are falsy.
TruthyList(l) == l # NoList /\ l # <<>>
\* merge_config with the custom_params spread first instead of last
merge_config_custom_first(cfg, req) ==
    LET base == [max_tokens  |-> Or(req.max_tokens, cfg.max_tokens),
                 temperature |-> Or(req.temperature, cfg.temperature),
                 top_p       |-> Or(req.top_p, cfg.top_p),
                 top_k       |-> Or(req.top_k, cfg.top_k)]
    IN  [k \in MergeKeys \cup DOMAIN cfg.custom_params |->
            IF k \in MergeKeys THEN base[k] ELSE cfg.custom_params[k]]

\* merge_config letting a value the request supplies replace a custom_params
\* entry of the same name
merge_config_request_over_custom(cfg, req) ==
    LET base == [max_tokens  |-> Or(req.max_tokens, cfg.max_tokens),
                 temperature |-> Or(req.temperature, cfg.temperature),
                 top_p       |-> Or(req.top_p, cfg.top_p),
                 top_k       |-> Or(req.top_k, cfg.top_k)]
    IN  [k \in MergeKeys \cup DOMAIN cfg.custom_params |->
            IF k \in DOMAIN cfg.custom_params /\ ~(k \in MergeKeys /\ Truthy(req[k]))
            THEN cfg.custom_params[k]
            ELSE base[k]]

merge_config(cfg, req) ==
    LET base == [max_tokens  |-> Or(req.max_tokens, cfg.max_tokens),
                 temperature |-> Or(req.temperature, cfg.temperature),
                 top_p       |-> Or(req.top_p, cfg.top_p),
                 top_k       |-> Or(req.top_k, cfg.top_k)]
    IN  [k \in MergeKeys \cup DOMAIN cfg.custom_params |->
            IF k \in DOMAIN cfg.custom_params THEN cfg.custom_params[k]
            ELSE base[k]]

\* ------------------------------------------------------ provider adapters
\* BaseModelProvider.__init__ taking the model id from the registry name
BaseModelProvider_name_as_model(cfg) ==
    [config |-> cfg, name |-> cfg.name, provider |-> cfg.provider,
     model_id |-> cfg.name]

BaseModelProvider(cfg) ==
    [config |-> cfg, name |-> cfg.name, provider |-> cfg.provider,
     model_id |-> cfg.model_id]

\* Python's "config.base_url or default".
BaseUrlOr(cfg, default) ==
    IF cfg.base_url # None /\ cfg.base_url # "" THEN cfg.base_url ELSE default

\* The constructors of the six adapters.  A formatted string is the tuple of
\* its parts.
OpenAIProvider(cfg) ==
    BaseModelProvider(cfg) @@
        [class |-> "OpenAIProvider",
         client |-> [api_key |-> cfg.api_key, base_url |-> cfg.base_url]]

AnthropicProvider(cfg) ==
    BaseModelProvider(cfg) @@
        [class |-> "AnthropicProvider",
         client |-> [api_key |-> cfg.api_key, base_url |-> cfg.base_url]]

OllamaProvider(cfg) ==
    BaseModelProvider(cfg) @@
        [class |-> "OllamaProvider",
         base_url |-> BaseUrlOr(cfg, "http://localhost:11434")]

LlamaCppProvider(cfg) ==
    BaseModelProvider(cfg) @@
        [class |-> "LlamaCppProvider",
         base_url |-> BaseUrlOr(cfg, "http://localhost:8080")]

TextGenerationWebUIProvider(cfg) ==
    BaseModelProvider(cfg) @@
        [class |-> "TextGenerationWebUIProvider",
         base_url |-> BaseUrlOr(cfg, "http://localhost:5000")]

HuggingFaceProvider(cfg) ==
    LET self == BaseModelProvider(cfg)
    IN  self @@
        [class |-> "HuggingFaceProvider",
         api_url |-> <<"https://api-inference.huggingface.co/models/", self.model_id>>,
         headers |-> [Authorization |-> <<"Bearer ", cfg.api_key>>]]

\* provider_classes with textgen mapped to the llama.cpp adapter
provider_classes_wrong_class ==
    [openai      |-> "OpenAIProvider",
     anthropic   |-> "AnthropicProvider",
     ollama      |-> "OllamaProvider",
     llamacpp    |-> "LlamaCppProvider",
     textgen     |-> "LlamaCppProvider",
     huggingface |-> "HuggingFaceProvider"]

\* ModelManager.provider_classes
provider_classes ==
    [openai      |-> "OpenAIProvider",
     anthropic   |-> "AnthropicProvider",
     ollama      |-> "OllamaProvider",
     llamacpp    |-> "LlamaCppProvider",
     textgen     |-> "TextGenerationWebUIProvider",
     huggingface |-> "HuggingFaceProvider"]

\* provider_class(config): calling the class found in provider_classes
Construct(class, cfg) ==
    CASE class = "OpenAIProvider"              -> OpenAIProvider(cfg)
      [] class = "AnthropicProvider"           -> AnthropicProvider(cfg)
      [] class = "OllamaProvider"              -> OllamaProvider(cfg)
      [] class = "LlamaCppProvider"            -> LlamaCppProvider(cfg)
      [] class = "TextGenerationWebUIProvider" -> TextGenerationWebUIProvider(cfg)
      [] class = "HuggingFaceProvider"         -> HuggingFaceProvider(cfg)

\* get_model_info of each adapter class
OpenAIProvider_get_model_info(p) ==
    [provider |-> p.provider, model |-> p.model_id, type |-> "chat",
     supports_system_prompt |-> TRUE, supports_streaming |-> TRUE]

AnthropicProvider_get_model_info(p) ==
    [provider |-> p.provider, model |-> p.model_id, type |-> "chat",
     supports_system_prompt |-> TRUE, supports_streaming |-> TRUE]

OllamaProvider_get_model_info(p) ==
    [provider |-> p.provider, model |-> p.model_id, type |-> "completion",
     supports_system_prompt |-> TRUE, supports_streaming |-> TRUE, local |-> TRUE]

LlamaCppProvider_get_model_info(p) ==
    [provider |-> p.provider, model |-> p.model_id, type |-> "completion",
     supports_system_prompt |-> TRUE, supports_streaming |-> TRUE, local |-> TRUE]

TextGenerationWebUIProvider_get_model_info(p) ==
    [provider |-> p.provider, model |-> p.model_id, type |-> "completion",
     supports_system_prompt |-> TRUE, supports_streaming |-> TRUE, local |-> TRUE]

HuggingFaceProvider_get_model_info(p) ==
    [provider |-> p.provider, model |-> p.model_id, type |-> "completion",
     supports_system_prompt |-> TRUE, supports_streaming |-> FALSE, cloud |-> TRUE]

\* provider.get_model_info(), dispatched on the adapter's class
get_model_info(p) ==
    CASE p.class = "OpenAIProvider"              -> OpenAIProvider_get_model_info(p)
      [] p.class = "AnthropicProvider"           -> AnthropicProvider_get_model_info(p)
      [] p.class = "OllamaProvider"              -> OllamaProvider_get_model_info(p)
      [] p.class = "LlamaCppProvider"            -> LlamaCppProvider_get_model_info(p)
      [] p.class = "TextGenerationWebUIProvider" ->
             TextGenerationWebUIProvider_get_model_info(p)
      [] p.class = "HuggingFaceProvider"         -> HuggingFaceProvider_get_model_info(p)

\* --------------------------------------------------------- the dict
\* A Python dict keeps its entries in insertion order in an array; deleting
\* a key leaves a hole, a new key is appended, and an insertion that finds
\* the array full rebuilds it without the holes.
Hole == [key |-> None, value |-> NoProvider]

DictKeys(d) == {d[i].key : i \in {j \in 1..Len(d) : d[j].key # None}}

DictLen(d) == Cardinality(DictKeys(d))

DictIndex(d, k) == CHOOSE i \in 1..Len(d) : d[i].key = k

DictGet(d, k) == IF k \in DictKeys(d) THEN d[DictIndex(d, k)].value ELSE NoProvider

DictCompact(d) == SelectSeq(d, LAMBDA e : e.key # None)

DictSet(d, k, v) ==
    IF k \in DictKeys(d) THEN [d EXCEPT ![DictIndex(d, k)].value = v]
    ELSE IF Len(d) < DictUsable THEN Append(d, [key |-> k, value |-> v])
    ELSE Append(DictCompact(d), [key |-> k, value |-> v])

DictDel(d, k) == [d EXCEPT ![DictIndex(d, k)] = Hole]

\* ------------------------------------------------------------- universes
Names == {"gpt-4", "llama2-local"}

HostedKinds == {"openai", "anthropic", "huggingface"}

LocalKinds == {"ollama", "llamacpp", "textgen"}

\* A provider tag outside provider_classes.
UnknownKinds == {"palm"}

\* The configs handed to add_model: a hosted or unknown kind under the first
\* name, with a second model id for openai, and a local or unknown kind under
\* the second name.
Configs ==
    {ModelConfig("gpt-4", p, "gpt-4", "your-openai-api-key", None) :
        p \in HostedKinds \cup UnknownKinds}
    \cup
    {ModelConfig("gpt-4", "openai", "gpt-3.5-turbo", "your-openai-api-key", None)}
    \cup
    {ModelConfig("llama2-local", p, m, None, "http://localhost:11434") :
        p \in LocalKinds \cup UnknownKinds, m \in {"llama2"}}

\* What a backend can answer to a probe: an HTTP status, or no answer at all.
BackendAnswers == {"200", "503", "500", "timeout"}

\* What a backend answers to every request of a generation call, as far as the
\* registry can tell: success, an error status, or status 200 with a body
\* that is not JSON.
GenerateAnswers == {"200", "500", "200-invalid"}

NoMerge == [k \in {} |-> 0]

\* ------------------------------------------------------------ health_check
\* Each adapter's health_check: what the try body makes of the backend's
\* answer, and False from the bare except when the body raises.  A result is
\* [raised, value]: whether an exception leaves the method, and the bool
\* returned otherwise.
\* the handler letting the exception out instead of returning False
ExceptReturnFalse_reraise(body) == body

\* try: body / except: return False
ExceptReturnFalse(body) == IF body.raised THEN Returns(FALSE) ELSE body

\* aiohttp raises when the backend does not answer
OllamaProvider_health_check(answer) ==
    ExceptReturnFalse(IF answer = "timeout" THEN Raises ELSE Returns(answer = "200"))

LlamaCppProvider_health_check(answer) ==
    ExceptReturnFalse(IF answer = "timeout" THEN Raises ELSE Returns(answer = "200"))

TextGenerationWebUIProvider_health_check(answer) ==
    ExceptReturnFalse(IF answer = "timeout" THEN Raises ELSE Returns(answer = "200"))

\* the probe accepting a success status only
HuggingFaceProvider_health_check_only_200(answer) ==
    ExceptReturnFalse(IF answer = "timeout" THEN Raises ELSE Returns(answer = "200"))

\* return response.status in [200, 503]
HuggingFaceProvider_health_check(answer) ==
    ExceptReturnFalse(IF answer = "timeout" THEN Raises
                      ELSE Returns(answer \in {"200", "503"}))

\* the SDK clients raise unless the backend answers with a success status
OpenAIProvider_health_check(answer) ==
    ExceptReturnFalse(IF answer # "200" THEN Raises ELSE Returns(TRUE))

AnthropicProvider_health_check(answer) ==
    ExceptReturnFalse(IF answer # "200" THEN Raises ELSE Returns(TRUE))

\* provider.health_check(), dispatched on the adapter's class
health_check(p, answer) ==
    CASE p.class = "OpenAIProvider"              -> OpenAIProvider_health_check(answer)
      [] p.class = "AnthropicProvider"           -> AnthropicProvider_health_check(answer)
      [] p.class = "OllamaProvider"              -> OllamaProvider_health_check(answer)
      [] p.class = "LlamaCppProvider"            -> LlamaCppProvider_health_check(answer)
      [] p.class = "TextGenerationWebUIProvider" ->
             TextGenerationWebUIProvider_health_check(answer)
      [] p.class = "HuggingFaceProvider"         -> HuggingFaceProvider_health_check(answer)

\* ---------------------------------------------------------------- generate
\* What a backend can answer to one request of a generation call: an HTTP
\* status, or no answer at all.  200-echo is status 200 with a text that
\* repeats the prompt before the generated words.
AdapterAnswers == {"200", "200-echo", "401", "500", "timeout"}

\* 200-invalid is status 200 with a body that is not JSON.
HttpAnswers == AdapterAnswers \cup {"200-invalid"}

Status(a) == IF a \in {"200-echo", "200-invalid"} THEN "200" ELSE a

\* json.JSONDecodeError, which response.json() raises on such a body, is a
\* subclass of ValueError.
JSONDecodeError == [type |-> "JSONDecodeError", message |-> "Expecting value"]

\* The exception types "except ValueError" catches.
ValueErrors == {"ValueError", "JSONDecodeError"}

\* openai.AsyncOpenAI and anthropic.AsyncAnthropic are constructed with
\* api_key and base_url only, so the clients keep the SDKs' max_retries of 2:
\* a request that gets no answer or a 5xx status is sent again, up to twice.
DefaultMaxRetries == 2

RetryableAnswers == {"timeout", "500", "503"}

\* The requests one generate call can send.
Attempts == 1..(1 + DefaultMaxRetries)

\* The bound on a probe, in seconds.  huggingface passes
\* ClientTimeout(total=30) to session.post.
HuggingFaceProbeTimeout == 30

\* ollama, llamacpp and textgen call session.get with no timeout, which leaves
\* aiohttp's default ClientTimeout(total=300).
AiohttpDefaultTimeout == 300

\* The SDK clients are constructed with no timeout, which leaves the SDKs'
\* default of 600 seconds for each request they send.
SdkDefaultTimeout == 600

\* How long health_check waits for a backend that never answers before it
\* returns.
health_check_timeout(p) ==
    CASE p.class = "HuggingFaceProvider" -> HuggingFaceProbeTimeout
      [] p.class \in {"OllamaProvider", "LlamaCppProvider",
                      "TextGenerationWebUIProvider"} -> AiohttpDefaultTimeout
      [] p.class \in {"OpenAIProvider", "AnthropicProvider"} ->
             SdkDefaultTimeout * (1 + DefaultMaxRetries)

\* The text a backend generates.
BodyText == "Once upon a time"

\* A text is the sequence of its pieces: a copy of the prompt that was sent,
\* or characters of the backend's own.
Echo(prompt) == [echo |-> TRUE, s |-> prompt]

Chars(s) == [echo |-> FALSE, s |-> s]

\* The text in the body of a success answer.
Body(a, prompt) ==
    IF a = "200-echo" THEN <<Echo(prompt), Chars(" "), Chars(BodyText)>>
    ELSE <<Chars(BodyText)>>

\* text.startswith(prefix)
StartsWith(text, prefix) ==
    text # <<>> /\ Head(text).echo /\ Head(text).s = prefix

\* text.strip(): without the whitespace at its ends
RECURSIVE Strip(_)
Strip(text) ==
    IF text = <<>> THEN text
    ELSE IF Head(text) = Chars(" ") THEN Strip(Tail(text))
    ELSE IF text[Len(text)] = Chars(" ") THEN Strip(SubSeq(text, 1, Len(text) - 1))
    ELSE text

GenerationResponse(text, model, provider) ==
    [text |-> text, model |-> model, provider |-> provider]

\* Exception(message)
Exception(message) == [type |-> "Exception", message |-> message]

\* the handler letting the caught exception go on as it is
GenerationFailed_reraise(backend, e) ==
    [type |-> e.type, message |-> e.message, context |-> e]

\* except Exception as e: raise Exception(f"... generation failed: {str(e)}").
\* Raised inside the handler, the new exception has e as its __context__.
GenerationFailed(backend, e) ==
    [type |-> "Exception",
     message |-> <<backend, " generation failed: ", e.message>>,
     context |-> e]

\* async with session.post(url, json=payload, timeout=ClientTimeout(total=300)):
\* one request; no answer raises TimeoutError (whose str is empty), a status
\* other than 200 raises Exception("... API error: status"), and
\* await response.json() raises JSONDecodeError on a body that is not JSON.
HttpPost(api, answers) ==
    LET a == answers[1]
    IN  IF a = "timeout"
        THEN [raised |-> TRUE, exc |-> [type |-> "TimeoutError", message |-> ""],
              requests |-> 1]
        ELSE IF Status(a) # "200"
        THEN [raised |-> TRUE, exc |-> Exception(<<api, " API error: ", a>>),
              requests |-> 1]
        ELSE IF a = "200-invalid"
        THEN [raised |-> TRUE, exc |-> JSONDecodeError, requests |-> 1]
        ELSE [raised |-> FALSE, exc |-> None, requests |-> 1]

\* await self.client....create(**kwargs): the SDK client sends the request
\* and sends it again while the answer is retryable and retries remain; it
\* raises its own error for the last answer otherwise.  A success status with
\* a body that is not JSON ends in the JSONDecodeError of the client's
\* response.json().
RECURSIVE SdkCreate(_, _)
SdkCreate(answers, attempt) ==
    LET a == answers[attempt]
    IN  IF a = "200-invalid"
        THEN [raised |-> TRUE, exc |-> JSONDecodeError, requests |-> attempt]
        ELSE IF Status(a) = "200"
        THEN [raised |-> FALSE, exc |-> None, requests |-> attempt]
        ELSE IF a \in RetryableAnswers /\ attempt <= DefaultMaxRetries
        THEN SdkCreate(answers, attempt + 1)
        ELSE IF a = "timeout"
        THEN [raised |-> TRUE,
              exc |-> [type |-> "APITimeoutError", message |-> "Request timed out."],
              requests |-> attempt]
        ELSE [raised |-> TRUE,
              exc |-> [type |-> "APIStatusError", message |-> <<"Error code: ", a>>],
              requests |-> attempt]

\* generate answering a failed call with a response that has no text
TryGenerate_partial(backend, p, url, payload, r, answers, text) ==
    [raised |-> FALSE,
     value |-> IF r.raised THEN GenerationResponse(<<>>, p.model_id, p.provider)
               ELSE GenerationResponse(text, p.model_id, p.provider),
     url |-> url, payload |-> payload, requests |-> r.requests,
     answers |-> SubSeq(answers, 1, r.requests)]

\* The end of every adapter's generate: the normalized response when the try
\* body got a success, the wrapped exception otherwise.  The result records
\* what was sent: the url or SDK method, the payload, the number of requests
\* and the answers they got.  text is the response's text as the adapter
\* takes it from the body of a success answer.
TryGenerate(backend, p, url, payload, r, answers, text) ==
    [raised |-> r.raised,
     value |-> IF r.raised THEN GenerationFailed(backend, r.exc)
               ELSE GenerationResponse(text, p.model_id, p.provider),
     url |-> url, payload |-> payload, requests |-> r.requests,
     answers |-> SubSeq(answers, 1, r.requests)]

\* the openai adapter appending the system entry after the user entry
OpenAIProvider_generate_system_last(p, req, answers) ==
    LET merged == merge_config(p.config, req)
        user == <<[role |-> "user", content |-> req.prompt]>>
        messages == IF TruthyStr(req.system_prompt)
                    THEN user \o <<[role |-> "system", content |-> req.system_prompt]>>
                    ELSE user
        payload == [model |-> p.model_id, messages |-> messages,
                    max_tokens |-> merged["max_tokens"],
                    temperature |-> merged["temperature"],
                    top_p |-> merged["top_p"],
                    stop |-> req.stop_sequences]
        r == SdkCreate(answers, 1)
    IN  TryGenerate("OpenAI", p, "chat.completions.create", payload, r, answers,
                    Body(answers[r.requests], req.prompt))
OpenAIProvider_generate(p, req, answers) ==
    LET merged == merge_config(p.config, req)
        user == <<[role |-> "user", content |-> req.prompt]>>
        messages == IF TruthyStr(req.system_prompt)
                    THEN <<[role |-> "system", content |-> req.system_prompt]>> \o user
                    ELSE user
        payload == [model |-> p.model_id, messages |-> messages,
                    max_tokens |-> merged["max_tokens"],
                    temperature |-> merged["temperature"],
                    top_p |-> merged["top_p"],
                    stop |-> req.stop_sequences]
        r == SdkCreate(answers, 1)
    IN  TryGenerate("OpenAI", p, "chat.completions.create", payload, r, answers,
                    Body(answers[r.requests], req.prompt))

AnthropicProvider_generate(p, req, answers) ==
    LET merged == merge_config(p.config, req)
        payload == [model |-> p.model_id,
                    max_tokens |-> merged["max_tokens"],
                    temperature |-> merged["temperature"],
                    top_p |-> merged["top_p"],
                    system |-> IF TruthyStr(req.system_prompt)
                               THEN req.system_prompt ELSE "",
                    messages |-> <<[role |-> "user", content |-> req.prompt]>>,
                    stop_sequences |-> req.stop_sequences]
        r == SdkCreate(answers, 1)
    IN  TryGenerate("Anthropic", p, "messages.create", payload, r, answers,
                    Body(answers[r.requests], req.prompt))

OllamaProvider_generate(p, req, answers) ==
    LET merged == merge_config(p.config, req)
        full_prompt == IF TruthyStr(req.system_prompt)
                       THEN <<"System: ", req.system_prompt, "\n\nUser: ", req.prompt>>
                       ELSE req.prompt
        options == [temperature |-> merged["temperature"],
                    top_p |-> merged["top_p"],
                    top_k |-> merged["top_k"],
                    num_predict |-> merged["max_tokens"]]
        payload == [model |-> p.model_id, prompt |-> full_prompt, stream |-> FALSE,
                    options |-> IF TruthyList(req.stop_sequences)
                                THEN [stop |-> req.stop_sequences] @@ options
                                ELSE options]
    IN  TryGenerate("Ollama", p, <<p.base_url, "/api/generate">>, payload,
                    HttpPost("Ollama", answers), answers, Body(answers[1], full_prompt))

LlamaCppProvider_generate(p, req, answers) ==
    LET merged == merge_config(p.config, req)
        full_prompt == IF TruthyStr(req.system_prompt)
                       THEN <<"<|system|>\n", req.system_prompt, "\n<|user|>\n",
                              req.prompt, "\n<|assistant|>\n">>
                       ELSE req.prompt
        fields == [prompt |-> full_prompt,
                   n_predict |-> merged["max_tokens"],
                   temperature |-> merged["temperature"],
                   top_p |-> merged["top_p"],
                   top_k |-> merged["top_k"],
                   stream |-> FALSE]
        payload == IF TruthyList(req.stop_sequences)
                   THEN [stop |-> req.stop_sequences] @@ fields ELSE fields
    IN  TryGenerate("llama.cpp", p, <<p.base_url, "/completion">>, payload,
                    HttpPost("llama.cpp", answers), answers, Body(answers[1], full_prompt))

TextGenerationWebUIProvider_generate(p, req, answers) ==
    LET merged == merge_config(p.config, req)
        full_prompt == IF TruthyStr(req.system_prompt)
                       THEN <<"System: ", req.system_prompt, "\n\nUser: ",
                              req.prompt, "\n\nAssistant:">>
                       ELSE req.prompt
        fields == [prompt |-> full_prompt,
                   max_new_tokens |-> merged["max_tokens"],
                   temperature |-> merged["temperature"],
                   top_p |-> merged["top_p"],
                   top_k |-> merged["top_k"],
                   do_sample |-> TRUE,
                   stream |-> FALSE]
        payload == IF TruthyList(req.stop_sequences)
                   THEN [stopping_strings |-> req.stop_sequences] @@ fields ELSE fields
        data == Body(answers[1], full_prompt)
        generated_text == IF StartsWith(data, full_prompt)
                          THEN Strip(Tail(data)) ELSE data
    IN  TryGenerate("TextGen WebUI", p, <<p.base_url, "/api/v1/generate">>, payload,
                    HttpPost("TextGen WebUI", answers), answers, generated_text)

HuggingFaceProvider_generate(p, req, answers) ==
    LET merged == merge_config(p.config, req)
        full_prompt == IF TruthyStr(req.system_prompt)
                       THEN <<"System: ", req.system_prompt, "\n\nUser: ",
                              req.prompt, "\n\nAssistant:">>
                       ELSE req.prompt
        parameters == [max_new_tokens |-> merged["max_tokens"],
                       temperature |-> merged["temperature"],
                       top_p |-> merged["top_p"],
                       top_k |-> merged["top_k"],
                       do_sample |-> TRUE,
                       return_full_text |-> FALSE]
        payload == [inputs |-> full_prompt,
                    parameters |-> IF TruthyList(req.stop_sequences)
                                   THEN [stop_sequences |-> req.stop_sequences] @@ parameters
                                   ELSE parameters]
    IN  TryGenerate("HuggingFace", p, p.api_url, payload,
                    HttpPost("HuggingFace", answers), answers, Body(answers[1], full_prompt))

\* provider.generate(request), dispatched on the adapter's class
provider_generate(p, req, answers) ==
    CASE p.class = "OpenAIProvider"              -> OpenAIProvider_generate(p, req, answers)
      [] p.class = "AnthropicProvider"           -> AnthropicProvider_generate(p, req, answers)
      [] p.class = "OllamaProvider"              -> OllamaProvider_generate(p, req, answers)
      [] p.class = "LlamaCppProvider"            -> LlamaCppProvider_generate(p, req, answers)
      [] p.class = "TextGenerationWebUIProvider" ->
             TextGenerationWebUIProvider_generate(p, req, answers)
      [] p.class = "HuggingFaceProvider"         -> HuggingFaceProvider_generate(p, req, answers)

\* ------------------------------------------------------------ ModelManager
\* add_model falling back to the OpenAI adapter for an unknown provider
add_model_default_adapter(d, cfg) ==
    LET provider_class ==
            IF cfg.provider \in DOMAIN provider_classes
            THEN provider_classes[cfg.provider] ELSE "OpenAIProvider"
    IN  [providers |-> DictSet(d, cfg.name, Construct(provider_class, cfg)),
         raised |-> FALSE, value |-> TRUE]

\* add_model keeping the adapter already registered under the name
add_model_keep_first(d, cfg) ==
    LET provider_class ==
            IF cfg.provider \in DOMAIN provider_classes
            THEN provider_classes[cfg.provider] ELSE None
    IN  IF provider_class = None
        THEN [providers |-> d, raised |-> FALSE, value |-> FALSE]
        ELSE [providers |->
                 IF cfg.name \in DictKeys(d) THEN d
                 ELSE DictSet(d, cfg.name, Construct(provider_class, cfg)),
              raised |-> FALSE, value |-> TRUE]

\* add_model: the try body raises ValueError for an unknown provider, the
\* handler turns every exception into the return value False.
add_model(d, cfg) ==
    LET provider_class ==
            IF cfg.provider \in DOMAIN provider_classes
            THEN provider_classes[cfg.provider] ELSE None
    IN  IF provider_class = None
        THEN [providers |-> d, raised |-> FALSE, value |-> FALSE]
        ELSE [providers |-> DictSet(d, cfg.name, Construct(provider_class, cfg)),
              raised |-> FALSE, value |-> TRUE]
\* remove_model returning True whether or not the name was registered
remove_model_always_true(d, name) ==
    IF name \in DictKeys(d)
    THEN [providers |-> DictDel(d, name), raised |-> FALSE, value |-> TRUE]
    ELSE [providers |-> d, raised |-> FALSE, value |-> TRUE]

remove_model(d, name) ==
    IF name \in DictKeys(d)
    THEN [providers |-> DictDel(d, name), raised |-> FALSE, value |-> TRUE]
    ELSE [providers |-> d, raised |-> FALSE, value |-> FALSE]

get_model(d, name) == DictGet(d, name)

\* list_models tagging each record with the adapter's model id
list_models_model_id(d) ==
    LET items == DictCompact(d)
    IN  [i \in 1..Len(items) |->
            [name |-> items[i].value.model_id] @@ get_model_info(items[i].value)]

\* list_models: for each item of the dict in order, the adapter's
\* get_model_info with info["name"] = name.
list_models(d) ==
    LET items == DictCompact(d)
    IN  [i \in 1..Len(items) |->
            [name |-> items[i].key] @@ get_model_info(items[i].value)]

\* an adapter that keeps the temperature its last call used as its default
AdapterAfter_keep_temperature(p, req) ==
    [p EXCEPT !.config.temperature = merge_config(p.config, req).temperature]

\* The adapter as generate or health_check leaves it: neither method, nor
\* merge_config, assigns to self, to self.config or to the request; sessions
\* and the params and payload dicts are created in the call.
AdapterAfter(p, req) == p

\* The registry as ModelManager.generate or health_check leaves it: the dict
\* is only read, and the adapter found, if any, has run one call.
AfterCall(d, model_name, req) ==
    IF model_name \in DictKeys(d)
    THEN DictSet(d, model_name, AdapterAfter(get_model(d, model_name), req))
    ELSE d

\* generate handing the request to the first registered adapter when the name
\* is not registered
generate_any_adapter(d, model_name, req, answers) ==
    LET provider == IF model_name \in DictKeys(d) \/ DictKeys(d) = {}
                    THEN get_model(d, model_name)
                    ELSE DictCompact(d)[1].value
    IN  IF provider = NoProvider
        THEN [raised |-> TRUE,
              value |-> [type |-> "ValueError",
                         message |-> <<"Model not found: ", model_name>>],
              url |-> None, payload |-> None, requests |-> 0, answers |-> <<>>]
        ELSE provider_generate(provider, req, answers)

\* ModelManager.generate: a ValueError naming model_name when get_model finds
\* nothing, the adapter's generate otherwise.
generate(d, model_name, req, answers) ==
    LET provider == get_model(d, model_name)
    IN  IF provider = NoProvider
        THEN [raised |-> TRUE,
              value |-> [type |-> "ValueError",
                         message |-> <<"Model not found: ", model_name>>],
              url |-> None, payload |-> None, requests |-> 0, answers |-> <<>>]
        ELSE provider_generate(provider, req, answers)

\* The route POST /api/models/{model_name}/generate: the response on success,
\* HTTP 404 when model_manager.generate raises a ValueError, HTTP 500 for any
\* other exception.
generate_text(d, model_name, req, answers) ==
    LET r == generate(d, model_name, req, answers)
    IN  r @@ [http |-> IF ~r.raised THEN 200
                       ELSE IF r.value.type \in ValueErrors THEN 404
                       ELSE 500]

\* ModelManager.health_check probing the first registered adapter when the
\* name is not registered
manager_health_check_any_adapter(d, model_name, answer) ==
    LET provider == IF model_name \in DictKeys(d) \/ DictKeys(d) = {}
                    THEN get_model(d, model_name)
                    ELSE DictCompact(d)[1].value
    IN  IF provider = NoProvider THEN Returns(FALSE) @@ [probes |-> 0]
        ELSE health_check(provider, answer) @@ [probes |-> 1]

\* ModelManager.health_check: False when get_model finds nothing, one call of
\* the adapter's health_check otherwise.  probes counts the adapter calls.
manager_health_check(d, model_name, answer) ==
    LET provider == get_model(d, model_name)
    IN  IF provider = NoProvider THEN Returns(FALSE) @@ [probes |-> 0]
        ELSE health_check(provider, answer) @@ [probes |-> 1]

\* load_default_models: default_configs, here the entries whose name is in
\* Names, each handed to add_model in list order.
default_configs ==
    <<ModelConfig("gpt-4", "openai", "gpt-4", "your-openai-api-key", None),
      ModelConfig("llama2-local", "ollama", "llama2", None, "http://localhost:11434")>>

RECURSIVE load_default_models(_, _)
load_default_models(d, i) ==
    IF i > Len(default_configs) THEN d
    ELSE load_default_models(add_model(d, default_configs[i]).providers, i + 1)

\* The dict iterator behind "for name, provider in self.providers.items()"
\* (CPython 3.8 and later): it remembers the dict's size and raises
\* RuntimeError when the size differs at the next step, or when it has
\* already handed out as many items as the dict had.
DictIter(d) == [di_used |-> DictLen(d), di_pos |-> 0, len |-> DictLen(d)]

DictIterNext(d, it) ==
    IF it.di_used # DictLen(d)
    THEN [status |-> "RuntimeError", it |-> [it EXCEPT !.di_used = -1]]
    ELSE LET live == {i \in (it.di_pos + 1)..Len(d) : d[i].key # None}
         IN  IF live = {} THEN [status |-> "StopIteration", it |-> it]
             ELSE IF it.len = 0 THEN [status |-> "RuntimeError", it |-> it]
             ELSE LET i == CHOOSE j \in live : \A k \in live : j <= k
                  IN  [status |-> "item",
                       it |-> [it EXCEPT !.di_pos = i, !.len = @ - 1],
                       key |-> d[i].key, value |-> d[i].value]

\* health_check_all from the for statement's next step up to the point where
\* the coroutine is suspended or finished: it awaits the probe of the next
\* entry, returns results when the iterator is exhausted, or lets the
\* iterator's RuntimeError escape (the for statement is outside the try).
\* h.started is the call's history of the names whose probe it has issued.
\* the loop returning what it has once one probe is back, the next one issued
\* and not awaited
HcaLoop_first_completed(d, h) ==
    LET n == DictIterNext(d, h.it)
    IN  CASE n.status = "item" /\ DOMAIN h.results = {} ->
               [hca |-> [h EXCEPT !.it = n.it, !.name = n.key, !.provider = n.value,
                                  !.started = @ \cup {n.key}],
                ret |-> NoRet]
          [] n.status = "item" /\ DOMAIN h.results # {} ->
               [hca |-> IdleHca,
                ret |-> [op |-> "health_check_all", raised |-> FALSE,
                         value |-> h.results, answers |-> h.answers,
                         mutated |-> h.mutated,
                         started |-> h.started \cup {n.key}]]
          [] n.status = "StopIteration" ->
               [hca |-> IdleHca,
                ret |-> [op |-> "health_check_all", raised |-> FALSE,
                         value |-> h.results, answers |-> h.answers,
                         mutated |-> h.mutated, started |-> h.started]]
          [] n.status = "RuntimeError" ->
               [hca |-> IdleHca,
                ret |-> [op |-> "health_check_all", raised |-> TRUE,
                         value |-> None, answers |-> h.answers,
                         mutated |-> h.mutated, started |-> h.started]]

HcaLoop(d, h) ==
    LET n == DictIterNext(d, h.it)
    IN  CASE n.status = "item" ->
               [hca |-> [h EXCEPT !.it = n.it, !.name = n.key, !.provider = n.value,
                                  !.started = @ \cup {n.key}],
                ret |-> NoRet]
          [] n.status = "StopIteration" ->
               [hca |-> IdleHca,
                ret |-> [op |-> "health_check_all", raised |-> FALSE,
                         value |-> h.results, answers |-> h.answers,
                         mutated |-> h.mutated, started |-> h.started]]
          [] n.status = "RuntimeError" ->
               [hca |-> IdleHca,
                ret |-> [op |-> "health_check_all", raised |-> TRUE,
                         value |-> None, answers |-> h.answers,
                         mutated |-> h.mutated, started |-> h.started]]

\* the loop body storing a result only for a probe that reports healthy
HcaRecord_healthy_only(results, name, r) ==
    IF ~r.raised /\ r.value THEN (name :> TRUE) @@ results ELSE results

\* results[name] = await provider.health_check(), False from the bare except
HcaRecord(results, name, r) ==
    (name :> (IF r.raised THEN FALSE ELSE r.value)) @@ results

\* A registry change made while health_check_all is suspended is noted in the
\* call's history; the backends' answers are kept only for a call that saw
\* no such change.
Mutated(h, changed) ==
    IF h.pc = "await" /\ changed
    THEN [h EXCEPT !.mutated = TRUE, !.answers = [k \in {} |-> None]]
    ELSE h

\* ------------------------------------------------------------------ steps
AddModel ==
    /\ \E cfg \in Configs :
          LET r == add_model(providers, cfg)
          IN  /\ providers' = r.providers
              /\ ret' = [op |-> "add_model", config |-> cfg, raised |-> r.raised,
                         value |-> r.value,
                         before_model |->
                             IF cfg.name \in DictKeys(providers)
                             THEN get_model(providers, cfg.name).model_id
                             ELSE None]
              /\ hca' = Mutated(hca, r.value)
    /\ UNCHANGED <<config, request, params, call, projects_db>>

RemoveModel ==
    /\ \E name \in Names :
          LET r == remove_model(providers, name)
          IN  /\ providers' = r.providers
              /\ ret' = [op |-> "remove_model", name |-> name, raised |-> r.raised,
                         value |-> r.value]
              /\ hca' = Mutated(hca, r.value)
    /\ UNCHANGED <<config, request, params, call, projects_db>>

GetModel ==
    /\ \E name \in Names :
          ret' = [op |-> "get_model", name |-> name, raised |-> FALSE,
                  value |-> get_model(providers, name)]
    /\ UNCHANGED <<providers, hca, config, request, params, call, projects_db>>

LoadDefaultModels ==
    /\ providers' = load_default_models(providers, 1)
    /\ ret' = [op |-> "load_default_models", raised |-> FALSE, value |-> None]
    /\ hca' = Mutated(hca, TRUE)
    /\ UNCHANGED <<config, request, params, call, projects_db>>

ListModels ==
    /\ ret' = [op |-> "list_models", raised |-> FALSE,
               value |-> list_models(providers)]
    /\ UNCHANGED <<providers, hca, config, request, params, call, projects_db>>

Generate ==
    /\ \E name \in Names, answer \in GenerateAnswers :
          LET r == generate_text(providers, name, request,
                                 [i \in Attempts |-> answer])
          IN  /\ ret' = [op |-> "generate", name |-> name, raised |-> r.raised,
                         value |-> r.value, requests |-> r.requests,
                         answer |-> answer, http |-> r.http]
              /\ providers' = AfterCall(providers, name, request)
    /\ UNCHANGED <<hca, config, request, params, call, projects_db>>

HealthCheck ==
    /\ \E name \in Names, answer \in BackendAnswers :
          LET r == manager_health_check(providers, name, answer)
          IN  /\ ret' = [op |-> "health_check", name |-> name, raised |-> r.raised,
                         value |-> r.value, answer |-> answer, probes |-> r.probes]
              /\ providers' = AfterCall(providers, name, request)
    /\ UNCHANGED <<hca, config, request, params, call, projects_db>>

\* A caller starts health_check_all: results = {}, the iterator is created
\* and the first probe is issued.
HealthCheckAll ==
    /\ hca.pc = "idle"
    /\ LET h == [pc |-> "await", it |-> DictIter(providers), name |-> None,
                 provider |-> NoProvider, results |-> [k \in {} |-> FALSE],
                 answers |-> [k \in {} |-> None], mutated |-> FALSE,
                 started |-> {}]
           s == HcaLoop(providers, h)
       IN  hca' = s.hca /\ ret' = s.ret
    /\ UNCHANGED <<providers, config, request, params, call, projects_db>>

\* The awaited probe finishes: its result is stored and the loop goes on.
HcaProbeReturn ==
    /\ hca.pc = "await"
    /\ \E answer \in BackendAnswers :
          LET r == health_check(hca.provider, answer)
              h == [hca EXCEPT !.results = HcaRecord(@, hca.name, r),
                               !.answers = IF hca.mutated THEN @
                                           ELSE (hca.name :> answer) @@ @]
              s == HcaLoop(providers, h)
          IN  hca' = s.hca /\ ret' = s.ret
    /\ UNCHANGED <<providers, config, request, params, call, projects_db>>

Init ==
    /\ providers = <<>>
    /\ ret = NoRet
    /\ hca = IdleHca
    /\ config = ModelConfig("m1", "ollama", "llama2", None, None)
    /\ request = [prompt |-> "hello", max_tokens |-> NoNumber,
                  temperature |-> NoNumber, top_p |-> NoNumber,
                  top_k |-> NoNumber, stop_sequences |-> NoList,
                  system_prompt |-> None]
    /\ params = NoMerge
    /\ call = NoCall
    /\ projects_db = NoProjects

Next ==
    \/ AddModel
    \/ RemoveModel
    \/ GetModel
    \/ ListModels
    \/ LoadDefaultModels
    \/ Generate
    \/ HealthCheck
    \/ HealthCheckAll
    \/ HcaProbeReturn

Spec == Init /\ [][Next]_vars

\* The operations that change the registry or move health_check_all; every
\* other operation leaves providers and hca as they are.
FairNext ==
    \/ AddModel
    \/ RemoveModel
    \/ LoadDefaultModels
    \/ HealthCheckAll
    \/ HcaProbeReturn

\* The event loop resumes health_check_all whenever the probe it awaits has
\* returned or failed, and every probe does.  The step always changes hca.
FairSpec == Init /\ [][FairNext]_vars /\ WF_hca(HcaProbeReturn)

\* ------------------------------------------------------- the merge rule
\* The inputs of merge_config: every numeric default either the class default
\* or 1, custom_params over a key merge_config also sets and one it does not,
\* every request field absent or a number.
CustomKeys == {"temperature", "seed"}

CustomParams ==
    UNION {[K -> 0..MaxVal] : K \in SUBSET CustomKeys}

MergeConfigs ==
    {[ModelConfig("m1", "ollama", "llama2", None, None) EXCEPT
         !.max_tokens = mt, !.temperature = t, !.top_p = tp, !.top_k = tk,
         !.custom_params = cp] :
        mt \in {DefaultMaxTokens, 1}, t \in {DefaultTemperature, 1},
        tp \in {DefaultTopP, 1}, tk \in {DefaultTopK, 1}, cp \in CustomParams}

OptionalNumber == {NoNumber} \cup 0..MaxVal

GenerationRequests ==
    [prompt : {"hello"}, max_tokens : OptionalNumber, temperature : OptionalNumber,
     top_p : OptionalNumber, top_k : OptionalNumber, stop_sequences : {NoList},
     system_prompt : {None}]

MergeInit ==
    /\ providers = <<>>
    /\ ret = NoRet
    /\ hca = IdleHca
    /\ config \in MergeConfigs
    /\ request \in GenerationRequests
    /\ params = NoMerge
    /\ call = NoCall
    /\ projects_db = NoProjects

\* The adapter merges the request it was handed.
MergeConfig ==
    /\ params = NoMerge
    /\ params' = merge_config(config, request)
    /\ UNCHANGED <<providers, ret, hca, config, request, call, projects_db>>

\* The adapter is handed its next request.
NextRequest ==
    /\ params # NoMerge
    /\ request' \in GenerationRequests
    /\ params' = NoMerge
    /\ UNCHANGED <<providers, ret, hca, config, call, projects_db>>

MergeNext == MergeConfig \/ NextRequest

MergeSpec == MergeInit /\ [][MergeNext]_vars

Merged == params # NoMerge

\* C1: for each of max_tokens, temperature, top_p, top_k, a value the request
\* supplies (anything but None, 0 and 0.0 included) is the merged value.
C1_PresentFieldWins ==
    Merged => \A f \in MergeKeys : request[f] # NoNumber => params[f] = request[f]

\* C2 as stated: with any custom_params, a field the request leaves None is
\* merged to the config's default for that field.
C2_AbsentFieldDefault ==
    Merged => \A f \in MergeKeys : request[f] = NoNumber => params[f] = config[f]

\* C2 as amended: a field the request leaves None is merged to the config's
\* default for that field unless custom_params has an entry of that name, and
\* to that entry when it has one.
C2_AbsentFieldDefaultOrCustom ==
    Merged =>
        \A f \in MergeKeys :
            request[f] = NoNumber =>
                params[f] = IF f \in DOMAIN config.custom_params
                            THEN config.custom_params[f] ELSE config[f]

C2_Witness ==
    /\ Merged
    /\ request.max_tokens = NoNumber /\ params.max_tokens = DefaultMaxTokens
    /\ request.temperature = NoNumber
    /\ "temperature" \in DOMAIN config.custom_params
    /\ params.temperature # config.temperature
    /\ request.top_k # NoNumber

\* ---------------------------------------------------- health aggregation
\* A step that issues a probe: health_check_all enters, or moves on in, its
\* await of provider.health_check().
ProbeIssued ==
    /\ hca'.pc = "await"
    /\ hca.pc # "await" \/ hca'.it.di_pos # hca.it.di_pos

\* C3: health_check_all issues the probes of all registered adapters
\* concurrently: no probe is issued after waiting for another probe of the
\* same call to return.
C3_ProbesIssuedWithoutWaiting ==
    [][ProbeIssued => DOMAIN hca'.results = {}]_vars

\* C4: whatever add, remove and get do while health_check_all is suspended,
\* every operation completes without an internal error and health_check_all
\* returns a result mapping.
C4_NoInternalError ==
    ret.op \in {"add_model", "remove_model", "get_model", "health_check_all"} =>
        ~ret.raised

\* The answers each adapter kind reports as healthy.
C5_Healthy(kind, answer) ==
    answer = "200" \/ (kind = "huggingface" /\ answer = "503")

\* C5: with no registry change during the call, health_check_all returns a
\* mapping whose keys are exactly the registered names, False for exactly the
\* adapters whose probe failed and True for every other one.
C5_FanOutIsolation ==
    (ret.op = "health_check_all" /\ ~ret.mutated) =>
        /\ ~ret.raised
        /\ DOMAIN ret.value = DictKeys(providers)
        /\ \A n \in DictKeys(providers) :
              ret.value[n] = C5_Healthy(DictGet(providers, n).provider, ret.answers[n])

C5_Witness ==
    /\ ret.op = "health_check_all" /\ ~ret.mutated /\ ~ret.raised
    /\ Len(providers) = 2 /\ DictLen(providers) = 2
    /\ ret.value[providers[1].key] = FALSE
    /\ ret.value[providers[2].key] = TRUE

\* ------------------------------------------------------------ the registry
C6_Kinds == {"openai", "anthropic", "ollama", "llamacpp", "textgen", "huggingface"}

\* C6: add_model with a provider kind outside the six returns False without
\* raising and leaves the registry exactly as it was.
C6_UnknownKindRejected ==
    [][(ret'.op = "add_model" /\ ret'.config.provider \notin C6_Kinds) =>
          /\ ret'.value = FALSE
          /\ ~ret'.raised
          /\ providers' = providers]_vars

C6_Witness ==
    /\ ret.op = "add_model" /\ ret.config.provider = "palm"
    /\ ret.value = FALSE
    /\ ret.config.name \in DictKeys(providers)
    /\ DictLen(providers) = 2

C7_AdapterType(kind) ==
    CASE kind = "openai"      -> "OpenAIProvider"
      [] kind = "anthropic"   -> "AnthropicProvider"
      [] kind = "ollama"      -> "OllamaProvider"
      [] kind = "llamacpp"    -> "LlamaCppProvider"
      [] kind = "textgen"     -> "TextGenerationWebUIProvider"
      [] kind = "huggingface" -> "HuggingFaceProvider"

\* C7: every adapter stored in the registry has a provider kind among the six
\* and is an instance of the adapter type of that kind.
C7_ClosedEnumeration ==
    \A i \in 1..Len(providers) :
        providers[i].key # None =>
            /\ providers[i].value.provider \in C6_Kinds
            /\ providers[i].value.class = C7_AdapterType(providers[i].value.provider)

C7_Witness ==
    /\ DictLen(providers) = 2
    /\ ret.op = "add_model" /\ ret.config.provider = "palm"
    /\ DictGet(providers, "gpt-4").class = "HuggingFaceProvider"
    /\ DictGet(providers, "llama2-local").class = "TextGenerationWebUIProvider"

\* C8: after a successful add_model(config), get_model(config.name) is an
\* adapter whose get_model_info reports config's provider kind and model id.
C8_AddGetRoundTrip ==
    (ret.op = "add_model" /\ ret.value) =>
        /\ ret.config.name \in DictKeys(providers)
        /\ get_model_info(get_model(providers, ret.config.name)).provider
              = ret.config.provider
        /\ get_model_info(get_model(providers, ret.config.name)).model
              = ret.config.model_id

C8_Witness ==
    /\ ret.op = "add_model" /\ ret.value
    /\ ret.config.provider = "openai" /\ ret.config.model_id = "gpt-3.5-turbo"
    /\ get_model_info(get_model(providers, "gpt-4")).model = "gpt-3.5-turbo"

\* C9: remove_model(name) returns True exactly when name was registered;
\* afterwards get_model(name) is None, every other entry is as before, and
\* removing an unregistered name changes nothing.
C9_Remove ==
    [][\A n \in Names :
          (ret'.op = "remove_model" /\ ret'.name = n) =>
              /\ ret'.value = (n \in DictKeys(providers))
              /\ get_model(providers', n) = NoProvider
              /\ \A m \in Names \ {n} :
                    get_model(providers', m) = get_model(providers, m)
              /\ n \notin DictKeys(providers) => providers' = providers]_vars

C9_Witness ==
    /\ ret.op = "remove_model" /\ ret.value
    /\ ret.name \notin DictKeys(providers)
    /\ DictLen(providers) = 1

\* C10: a successful add_model under a name already registered with another
\* model id leaves exactly one entry for that name, which reflects the second
\* config, and does not grow the registry.
C10_DuplicateReplaces ==
    [][(/\ ret'.op = "add_model" /\ ret'.value
        /\ ret'.config.name \in DictKeys(providers)
        /\ get_model(providers, ret'.config.name).model_id # ret'.config.model_id) =>
          /\ Cardinality({i \in 1..Len(providers') :
                            providers'[i].key = ret'.config.name}) = 1
          /\ DictLen(providers') = DictLen(providers)
          /\ DictKeys(providers') = DictKeys(providers)
          /\ get_model_info(get_model(providers', ret'.config.name)).model
                = ret'.config.model_id
          /\ get_model_info(get_model(providers', ret'.config.name)).provider
                = ret'.config.provider]_vars

C10_Witness ==
    /\ ret.op = "add_model" /\ ret.value
    /\ ret.before_model = "gpt-4" /\ ret.config.model_id = "gpt-3.5-turbo"
    /\ DictLen(providers) = 2

\* ------------------------------------------------------------ one adapter
\* One adapter of each kind, registered under the name m1 with no or one
\* custom_params entry, is handed a request and its backend answers.
AdapterConfigs ==
    {[ModelConfig("m1", k, "llama2", "your-api-key", None) EXCEPT
         !.custom_params = cp] :
        k \in HostedKinds \cup LocalKinds,
        cp \in {c \in CustomParams : Cardinality(DOMAIN c) <= 1}}

AdapterRequests ==
    [prompt : {"hello"}, max_tokens : {NoNumber}, temperature : OptionalNumber,
     top_p : {NoNumber}, top_k : {NoNumber},
     stop_sequences : {NoList, <<"END">>},
     system_prompt : {None, "", "be brief"}]

AdapterInit ==
    /\ config \in AdapterConfigs
    /\ providers = add_model(<<>>, config).providers
    /\ request \in AdapterRequests
    /\ ret = NoRet
    /\ hca = IdleHca
    /\ params = NoMerge
    /\ call = NoCall
    /\ projects_db = NoProjects

\* The requests one generate call of adapter p can send: session.post is
\* called once, the SDK clients send again after a retryable answer.
AdapterAttempts(p) ==
    IF p.class \in {"OpenAIProvider", "AnthropicProvider"} THEN Attempts ELSE {1}

\* What the backend of adapter p can answer to one request: the body that is
\* not JSON is given to the adapters that read the body themselves.
AdapterAnswersOf(p) ==
    IF p.class \in {"OpenAIProvider", "AnthropicProvider"} THEN AdapterAnswers
    ELSE HttpAnswers

\* generate on the adapter; the backend answers each request the call sends.
AdapterGenerate ==
    /\ \E answers \in [AdapterAttempts(get_model(providers, config.name))
                          -> AdapterAnswersOf(get_model(providers, config.name))] :
          LET r == generate_text(providers, config.name, request, answers)
          IN  ret' = [op |-> "generate", name |-> config.name, raised |-> r.raised,
                      value |-> r.value, requests |-> r.requests,
                      answers |-> r.answers, url |-> r.url, payload |-> r.payload,
                      http |-> r.http]
    /\ providers' = AfterCall(providers, config.name, request)
    /\ UNCHANGED <<hca, config, request, params, call, projects_db>>

\* What a backend can answer to a probe: a status, or nothing at all.
ProbeAnswers == BackendAnswers \cup {"401"}

\* health_check on the adapter; the backend answers the probe.
AdapterHealthCheck ==
    /\ \E answer \in ProbeAnswers :
          LET r == manager_health_check(providers, config.name, answer)
          IN  ret' = [op |-> "health_check", name |-> config.name,
                      raised |-> r.raised, value |-> r.value, answer |-> answer,
                      probes |-> r.probes,
                      waited |-> IF answer = "timeout"
                                 THEN health_check_timeout(get_model(providers, config.name))
                                 ELSE 0]
    /\ providers' = AfterCall(providers, config.name, request)
    /\ UNCHANGED <<hca, config, request, params, call, projects_db>>

AdapterNext == AdapterGenerate \/ AdapterHealthCheck

AdapterSpec == AdapterInit /\ [][AdapterNext]_vars

\* ------------------------------------------------------- project store
\* app.py's create_project and delete_project on projects_db.
\* The most projects the store holds: create_project is not called on a store
\* of this size.
MaxProjects == 4

Titles == {"Dune", "Emma"}

\* f"proj_{n}"
ProjectId(n) == <<"proj_", n>>

ProjectIds == {ProjectId(n) : n \in 1..MaxProjects}

\* create_project: the id is made of the number of stored projects plus one,
\* and projects_db[project_id] = project_data binds it, bound before or not.
create_project(db, title) ==
    LET project_id == ProjectId(Cardinality(DOMAIN db) + 1)
        project_data == [id |-> project_id, title |-> title, status |-> "planning"]
    IN  [db |-> [k \in DOMAIN db \cup {project_id} |->
                    IF k = project_id THEN project_data ELSE db[k]],
         raised |-> FALSE, value |-> project_data]

\* delete_project: HTTP 404 for an id that is not stored, del otherwise.
delete_project(db, project_id) ==
    IF project_id \notin DOMAIN db
    THEN [db |-> db, raised |-> TRUE,
          value |-> [status_code |-> 404, detail |-> "Project not found"]]
    ELSE [db |-> [k \in DOMAIN db \ {project_id} |-> db[k]], raised |-> FALSE,
          value |-> [message |-> "Project deleted successfully"]]

CreateProject ==
    /\ Cardinality(DOMAIN projects_db) < MaxProjects
    /\ \E title \in Titles :
          LET r == create_project(projects_db, title)
          IN  /\ projects_db' = r.db
              /\ ret' = [op |-> "create_project", raised |-> r.raised,
                         value |-> r.value]
    /\ UNCHANGED <<providers, hca, config, request, params, call>>

DeleteProject ==
    /\ \E project_id \in ProjectIds :
          LET r == delete_project(projects_db, project_id)
          IN  /\ projects_db' = r.db
              /\ ret' = [op |-> "delete_project", project_id |-> project_id,
                         raised |-> r.raised, value |-> r.value]
    /\ UNCHANGED <<providers, hca, config, request, params, call>>

ProjectNext == CreateProject \/ DeleteProject

ProjectSpec == Init /\ [][ProjectNext]_vars

\* ------------------------------------------------------- suspended calls
\* ModelManager.generate and health_check in two steps: the lookup, which
\* ends the call when the name is not registered, and the return of
\* "await provider.generate(request)" or "await provider.health_check()".
\* Between the two the event loop runs add_model and remove_model.
\* a call reading self.providers again when its backend has answered
CallAdapter_late_lookup(d, c) ==
    IF c.name \in DictKeys(d) THEN get_model(d, c.name) ELSE c.provider

\* The adapter a suspended call runs on: its local variable provider.
CallAdapter(d, c) == c.provider

GenerateLookup ==
    /\ call.pc = "idle"
    /\ \E name \in Names :
          LET provider == get_model(providers, name)
          IN  IF provider = NoProvider
              THEN LET r == generate_text(providers, name, request, <<>>)
                   IN  /\ ret' = [op |-> "generate", name |-> name,
                                  raised |-> r.raised, value |-> r.value,
                                  requests |-> r.requests, answer |-> None,
                                  http |-> r.http]
                       /\ call' = call
              ELSE /\ call' = [pc |-> "await", op |-> "generate", name |-> name,
                               provider |-> provider]
                   /\ ret' = NoRet
    /\ UNCHANGED <<providers, hca, config, request, params, projects_db>>

\* The backend answers; the rest of the call, and of the route around it,
\* runs on the adapter the call holds.
GenerateReturn ==
    /\ call.pc = "await" /\ call.op = "generate"
    /\ \E answer \in GenerateAnswers :
          LET answers == [i \in Attempts |-> answer]
              r == generate_text(<<[key |-> call.name,
                                    value |-> CallAdapter(providers, call)]>>,
                                 call.name, request, answers)
          IN  ret' = [op |-> "generate", name |-> call.name, raised |-> r.raised,
                      value |-> r.value, requests |-> r.requests,
                      answer |-> answer, http |-> r.http]
    /\ call' = NoCall
    /\ UNCHANGED <<providers, hca, config, request, params, projects_db>>

HealthCheckLookup ==
    /\ call.pc = "idle"
    /\ \E name \in Names :
          LET provider == get_model(providers, name)
          IN  IF provider = NoProvider
              THEN LET r == manager_health_check(providers, name, None)
                   IN  /\ ret' = [op |-> "health_check", name |-> name,
                                  raised |-> r.raised, value |-> r.value,
                                  answer |-> None, probes |-> r.probes]
                       /\ call' = call
              ELSE /\ call' = [pc |-> "await", op |-> "health_check",
                               name |-> name, provider |-> provider]
                   /\ ret' = NoRet
    /\ UNCHANGED <<providers, hca, config, request, params, projects_db>>

HealthCheckReturn ==
    /\ call.pc = "await" /\ call.op = "health_check"
    /\ \E answer \in BackendAnswers :
          LET r == health_check(CallAdapter(providers, call), answer)
          IN  ret' = [op |-> "health_check", name |-> call.name,
                      raised |-> r.raised, value |-> r.value, answer |-> answer,
                      probes |-> 1]
    /\ call' = NoCall
    /\ UNCHANGED <<providers, hca, config, request, params, projects_db>>

CallNext ==
    \/ AddModel
    \/ RemoveModel
    \/ GenerateLookup
    \/ GenerateReturn
    \/ HealthCheckLookup
    \/ HealthCheckReturn

CallSpec == Init /\ [][CallNext]_vars

\* C11: generate for a name that is not registered raises ValueError with the
\* requested name in its message, sends no request to any backend and leaves
\* the registry as it was.
C11_LookupFailure ==
    [][\A n \in Names :
          (ret'.op = "generate" /\ ret'.name = n /\ n \notin DictKeys(providers)) =>
              /\ ret'.raised
              /\ ret'.value.type = "ValueError"
              /\ ret'.value.message = <<"Model not found: ", n>>
              /\ ret'.requests = 0
              /\ providers' = providers]_vars

C11_Witness ==
    /\ ret.op = "generate" /\ ret.raised /\ ret.value.type = "ValueError"
    /\ ret.name \notin DictKeys(providers)
    /\ ret.requests = 0
    /\ DictLen(providers) = 1

\* C12: health_check(name) returns False without raising and without calling
\* any adapter when name is not registered, and otherwise makes one call of
\* that adapter's health_check and returns what the adapter makes of the
\* backend's answer.
C12_HealthCheckLookup ==
    ret.op = "health_check" =>
        /\ ~ret.raised
        /\ IF ret.name \in DictKeys(providers)
           THEN /\ ret.probes = 1
                /\ ret.value = C5_Healthy(get_model(providers, ret.name).provider,
                                          ret.answer)
           ELSE ret.value = FALSE /\ ret.probes = 0

C12_Witness ==
    /\ ret.op = "health_check" /\ ret.name \notin DictKeys(providers)
    /\ ret.value = FALSE /\ ret.probes = 0
    /\ DictLen(providers) = 1
    /\ ret.answer = "200"

\* The answers an adapter kind treats as healthy.
C13_HealthyAnswers(kind) ==
    IF kind = "huggingface" THEN {"200", "503"} ELSE {"200"}

\* C13: for each of the six adapters and every answer of the backend (no
\* answer at all, or any status), health_check raises nothing and returns a
\* bool, which is True only for an answer the adapter treats as healthy and
\* False for every failure of the probe.
C13_HealthCheckNeverRaises ==
    ret.op = "health_check" =>
        /\ ~ret.raised
        /\ ret.value \in BOOLEAN
        /\ ret.value => ret.answer \in C13_HealthyAnswers(config.provider)
        /\ ret.answer \in {"timeout", "401", "500"} => ret.value = FALSE

C13_Witness ==
    /\ ret.op = "health_check" /\ ret.answer = "timeout"
    /\ config.provider = "anthropic"
    /\ ret.value = FALSE /\ ~ret.raised

\* The name each adapter gives its backend in its errors.
C14_BackendName(kind) ==
    CASE kind = "openai"      -> "OpenAI"
      [] kind = "anthropic"   -> "Anthropic"
      [] kind = "ollama"      -> "Ollama"
      [] kind = "llamacpp"    -> "llama.cpp"
      [] kind = "textgen"     -> "TextGen WebUI"
      [] kind = "huggingface" -> "HuggingFace"

\* C14: for each of the six adapters, a generate call whose last request got
\* a non-success status or no answer returns no response: it raises an
\* Exception whose message names the backend and holds str() of the cause,
\* with the cause (the status, or the transport error) as its context.  A
\* call that returns, returns a response with text, model and provider.
C14_FailureRaises ==
    ret.op = "generate" =>
        LET last == ret.answers[Len(ret.answers)]
        IN  /\ Status(last) # "200" =>
                  /\ ret.raised
                  /\ ret.value.type = "Exception"
                  /\ ret.value.message[1] = C14_BackendName(config.provider)
                  /\ ret.value.message[3] = ret.value.context.message
                  /\ IF last = "timeout"
                     THEN ret.value.context.type \in {"TimeoutError", "APITimeoutError"}
                     ELSE ret.value.context.message[Len(ret.value.context.message)] = last
            /\ ~ret.raised =>
                  /\ last \in {"200", "200-echo"}
                  /\ DOMAIN ret.value = {"text", "model", "provider"}
                  /\ ret.value.text # <<>>
                  /\ ret.value.model = config.model_id
                  /\ ret.value.provider = config.provider

C14_Witness ==
    /\ ret.op = "generate" /\ ret.raised
    /\ config.provider = "textgen"
    /\ ret.answers = <<"500">>
    /\ ret.value.context.message = <<"TextGen WebUI", " API error: ", "500">>

\* C15: for every key of the config's custom_params, the merged value under
\* that key is the custom_params value, whatever the request holds, also
\* when the key is max_tokens, temperature, top_p or top_k and the request
\* supplies that field.
C15_CustomParamsWin ==
    Merged =>
        \A k \in DOMAIN config.custom_params : params[k] = config.custom_params[k]

C15_Witness ==
    /\ Merged
    /\ DOMAIN config.custom_params = {"temperature", "seed"}
    /\ request.temperature = 1 /\ config.custom_params["temperature"] = 0
    /\ params["temperature"] = 0 /\ params["seed"] = config.custom_params["seed"]

\* Where an adapter's payload holds the sampling settings.
C16_Settings(kind, payload) ==
    CASE kind = "ollama"      -> payload.options
      [] kind = "huggingface" -> payload.parameters
      [] OTHER                -> payload

\* C16: for every adapter and every request, each key of the config's
\* custom_params is among the settings of the payload generate sends, with the
\* custom_params value.
C16_CustomParamsInPayload ==
    ret.op = "generate" =>
        \A k \in DOMAIN config.custom_params :
            /\ k \in DOMAIN C16_Settings(config.provider, ret.payload)
            /\ C16_Settings(config.provider, ret.payload)[k] = config.custom_params[k]

\* C17: for every adapter, one call of generate sends exactly one request to
\* the backend, whether the backend answers it with success or not.
C17_OneRequestPerCall ==
    ret.op = "generate" => ret.requests = 1

\* C18: for every registered adapter of every kind, get_model_info reports
\* supports_streaming False, and so does every record of list_models.
C18_StreamingFalse ==
    /\ \A n \in DictKeys(providers) :
          get_model_info(get_model(providers, n)).supports_streaming = FALSE
    /\ ret.op = "list_models" =>
          \A i \in 1..Len(ret.value) : ret.value[i].supports_streaming = FALSE

\* C19: every get_model_info result and every record of list_models has a
\* bool under the key local, True for ollama, llamacpp and textgen and False
\* for openai, anthropic and huggingface.
C19_LocalityFlag ==
    /\ \A n \in DictKeys(providers) :
          LET info == get_model_info(get_model(providers, n))
          IN  /\ "local" \in DOMAIN info
              /\ info.local = (info.provider \in LocalKinds)
    /\ ret.op = "list_models" =>
          \A i \in 1..Len(ret.value) :
              /\ "local" \in DOMAIN ret.value[i]
              /\ ret.value[i].local = (ret.value[i].provider \in LocalKinds)

\* C20: list_models returns one record per registered name, no name missing
\* or repeated, each record being the get_model_info of the adapter stored
\* under the name it is tagged with, and leaves the registry as it was.
C20_ListOnePerEntry ==
    [][ret'.op = "list_models" =>
          /\ providers' = providers
          /\ Len(ret'.value) = DictLen(providers)
          /\ {ret'.value[i].name : i \in 1..Len(ret'.value)} = DictKeys(providers)
          /\ \A i \in 1..Len(ret'.value) :
                /\ ret'.value[i].provider
                      = get_model(providers, ret'.value[i].name).provider
                /\ ret'.value[i].model
                      = get_model(providers, ret'.value[i].name).model_id]_vars

C20_Witness ==
    /\ ret.op = "list_models"
    /\ Len(ret.value) = 2
    /\ ret.value[1].name = "llama2-local" /\ ret.value[1].model = "llama2"
    /\ ret.value[2].name = "gpt-4" /\ ret.value[2].provider = "anthropic"

\* C21: every adapter's health_check puts a bound of at most 30 seconds on its
\* probe: for a backend that never answers it returns False after at most 30
\* seconds.
C21_ProbeTimeoutBounded ==
    (ret.op = "health_check" /\ ret.answer = "timeout") =>
        ret.value = FALSE /\ ret.waited <= 30

\* C22: for a registered ollama config whose custom_params name no sampling
\* field, and a request that supplies temperature but no max_tokens, the
\* payload sent has options.temperature equal to the request's temperature
\* and options.num_predict equal to the config's max_tokens, and each sampling
\* field of the payload is the merged value for that field.
C22_EndToEndOverride ==
    (/\ ret.op = "generate" /\ config.provider = "ollama"
     /\ DOMAIN config.custom_params \cap MergeKeys = {}
     /\ request.temperature # NoNumber /\ request.max_tokens = NoNumber) =>
        /\ ret.payload.options.temperature = request.temperature
        /\ ret.payload.options.num_predict = config.max_tokens
        /\ ret.payload.options.top_p = merge_config(config, request)["top_p"]
        /\ ret.payload.options.top_k = merge_config(config, request)["top_k"]

\* The raw prompt in the payload of a raw-prompt adapter.
C23_RawPrompt(kind, payload) ==
    IF kind = "huggingface" THEN payload.inputs ELSE payload.prompt

\* C23: when the request carries a system prompt (a non-empty one), the
\* openai adapter sends a system role entry followed by the user entry, and
\* ollama, llamacpp, textgen and huggingface send a prompt in which a
\* delimiter, the system text, a delimiter and the user prompt follow each
\* other in that order; when it carries none, openai sends the user entry
\* alone and the raw prompt is the request's prompt.
C23_SystemPrompt ==
    ret.op = "generate" =>
        LET has == request.system_prompt \notin {None, ""}
            user == [role |-> "user", content |-> request.prompt]
            sys == [role |-> "system", content |-> request.system_prompt]
        IN  CASE config.provider = "openai" ->
                   ret.payload.messages = IF has THEN <<sys, user>> ELSE <<user>>
              [] config.provider = "anthropic" -> TRUE
              [] OTHER ->
                   LET raw == C23_RawPrompt(config.provider, ret.payload)
                   IN  IF has
                       THEN \E i, j \in 1..Len(raw) :
                               /\ 1 < i /\ i + 1 < j
                               /\ raw[i] = request.system_prompt
                               /\ raw[j] = request.prompt
                               /\ \A k \in 1..Len(raw) \ {i, j} :
                                     raw[k] \notin {request.system_prompt, request.prompt}
                       ELSE raw = request.prompt

C23_Witness ==
    /\ ret.op = "generate"
    /\ config.provider = "llamacpp"
    /\ request.system_prompt = "be brief"
    /\ ret.payload.prompt[1] = "<|system|>\n"
    /\ ret.payload.prompt[2] = "be brief"
    /\ ret.payload.prompt[4] = "hello"

\* C24: whenever the text the huggingface backend returns begins with the
\* prompt that was sent, the response's text is the returned text without
\* that prefix; when the backend does not echo the prompt, the text is
\* returned as it is.
C24_EchoStripped ==
    (ret.op = "generate" /\ config.provider = "huggingface" /\ ~ret.raised) =>
        LET body == Body(ret.answers[1], ret.payload.inputs)
        IN  IF StartsWith(body, ret.payload.inputs)
            THEN ret.value.text \in {Tail(body), Strip(Tail(body))}
            ELSE ret.value.text = body

\* C25: the huggingface adapter's health_check returns True when the backend
\* answers 200 or 503 (model is loading), and False, without raising, for
\* every other status and when the request gets no answer.
C25_LoadingIsHealthy ==
    (ret.op = "health_check" /\ config.provider = "huggingface") =>
        /\ ~ret.raised
        /\ ret.value = (ret.answer \in {"200", "503"})

C25_Witness ==
    /\ ret.op = "health_check" /\ config.provider = "huggingface"
    /\ ret.answer = "503" /\ ret.value = TRUE /\ ret.probes = 1

\* C26: health_check_all never returns a mapping that lacks the result of a
\* probe it issued, and when every probe returns or fails the call that is
\* waiting for one eventually completes.
C26_CompletesAfterProbes ==
    /\ [](ret.op = "health_check_all" /\ ~ret.raised =>
              ret.started \subseteq DOMAIN ret.value)
    /\ (hca.pc = "await") ~> (hca.pc = "idle" /\ ret.op = "health_check_all")

C26_Witness ==
    /\ ret.op = "health_check_all" /\ ~ret.raised
    /\ Cardinality(ret.started) = 2
    /\ \E n \in DOMAIN ret.value : ~ret.value[n]

\* The registry right after construction and add_model(config).
C27_Fresh == add_model(<<>>, config).providers

C28_ErrorKinds ==
    ret.op = "generate" =>
        LET registered == ret.name \in DictKeys(providers)
        IN  /\ (ret.raised /\ ret.value.type \in ValueErrors) <=> ~registered
            /\ (registered /\ ret.raised) =>
                   ret.value.type = "Exception" /\ ret.http = 500
            /\ (registered /\ ret.answer # "200") => ret.raised
            /\ ret.http = 404 <=> ~registered
            /\ ret.http = 200 <=> ~ret.raised

C28_Witness ==
    /\ ret.op = "generate" /\ ret.name \in DictKeys(providers)
    /\ ret.answer = "200-invalid" /\ ret.raised
    /\ ret.value.context.type \in ValueErrors
    /\ ret.value.type = "Exception" /\ ret.http = 500
    /\ DictLen(providers) = 1

\* C29: a generate or health_check call that found its adapter completes on
\* that adapter and with that adapter's config, whatever add_model and
\* remove_model did to its name while the call was suspended, and leaves the
\* registry as it is; a lookup sees the registry as it is at that moment.
C29_SuspendedCallKeepsAdapter ==
    [][/\ (call.pc = "await" /\ call'.pc = "idle") =>
              /\ providers' = providers
              /\ ret'.op = call.op /\ ret'.name = call.name
              /\ call.op = "generate" =>
                    IF ret'.raised
                    THEN /\ ret'.value.type = "Exception"
                         /\ ret'.value.message[1] = C14_BackendName(call.provider.provider)
                    ELSE /\ ret'.value.model = call.provider.config.model_id
                         /\ ret'.value.provider = call.provider.config.provider
              /\ call.op = "health_check" =>
                    /\ ~ret'.raised
                    /\ ret'.value = C5_Healthy(call.provider.config.provider,
                                               ret'.answer)
       /\ (call.pc = "idle" /\ call'.pc = "await") =>
              /\ call'.name \in DictKeys(providers)
              /\ call'.provider = get_model(providers, call'.name)
       /\ (call.pc = "idle" /\ call'.pc = "idle"
             /\ ret'.op \in {"generate", "health_check"}) =>
              /\ ret'.name \notin DictKeys(providers)
              /\ ret'.op = "generate" => ret'.raised /\ ret'.value.type = "ValueError"
              /\ ret'.op = "health_check" => ret'.value = FALSE]_vars

\* A call returned a response of the adapter it found although the name was
\* registered again, with another model, before the backend answered.
C29_Witness ==
    /\ ret.op = "generate" /\ ~ret.raised
    /\ ret.name \in DictKeys(providers)
    /\ ret.value.model # get_model(providers, ret.name).model_id


\* C30: after any create_project and delete_project calls, create_project
\* stores the new project under an id that was not in the store, so no stored
\* project is overwritten and the store grows by exactly one project.
C30_CreateUsesFreshId ==
    [][ret'.op = "create_project" =>
          /\ ret'.value.id \notin DOMAIN projects_db
          /\ \A k \in DOMAIN projects_db : projects_db'[k] = projects_db[k]
          /\ Cardinality(DOMAIN projects_db') = Cardinality(DOMAIN projects_db) + 1]_vars
====
